---------------------------- MODULE Spec2Model ----------------------------
(***************************************************************************)
(* Model of the BOSS analyzer endpoint (src/app.py): the payment-term      *)
(* candidate extractor and resolver, the clause detectors, the            *)
(* fact-to-signal composer and the /analyze handler on its event loop.     *)
(*                                                                         *)
(* Text is modelled as a sequence of lexemes.  A lexeme is a maximal run   *)
(* of characters of one class:                                             *)
(*   k = "w"  a run of ASCII letters (field w holds the run)               *)
(*   k = "d"  a run of ASCII digits  (field ds holds the digits)           *)
(*   k = "s"  ONE whitespace character (w is " " or "\n")                  *)
(*   k = "p"  ONE punctuation character (w is "(", ")", "-", "." or ",")   *)
(*   k = "x"  a run of n filler characters that are neither word           *)
(*            characters, whitespace, "." nor parentheses (e.g. "#")       *)
(* Two "w" lexemes are never adjacent, nor two "d" lexemes (the runs are   *)
(* maximal).  The regular expressions of the source are translated to      *)
(* matchers over lexemes; the words of Vocabulary are atomic for them (no  *)
(* word of Vocabulary other than those listed in the tables below holds a  *)
(* pattern keyword as a proper substring).                                 *)
(***************************************************************************)
EXTENDS Integers, Sequences, FiniteSets, TLC

VARIABLES
    text,       \* find_payment_days / find_indemnity: the argument
    called,     \* the pure function under check has returned
    relevant,   \* find_payment_days: local `relevant`
    picks,      \* find_payment_days: local `picks` (after picks.sort)
    days,       \* find_payment_days: the returned Optional[int]
    block,      \* find_indemnity: span <<start, end>> of `block`, or <<>>
    indem,      \* find_indemnity: the returned classification
    OCR_OK,     \* module flag set at import time
    req,        \* /analyze: per request, the handler's position and locals
    loop        \* the request whose handler occupies the event-loop thread, or 0

vars == <<text, called, relevant, picks, days, block, indem, OCR_OK, req, loop>>

(***************************************************************************)
(* Optional[int]                                                           *)
(***************************************************************************)
None == <<>>
Some(n) == <<n>>

(***************************************************************************)
(* Lexemes                                                                 *)
(***************************************************************************)
Wd(s) == [k |-> "w", w |-> s, ds |-> <<>>, n |-> 0]
Nm(d) == [k |-> "d", w |-> "", ds |-> d, n |-> 0]
Sp == [k |-> "s", w |-> " ", ds |-> <<>>, n |-> 0]
Nl == [k |-> "s", w |-> "\n", ds |-> <<>>, n |-> 0]
Pn(c) == [k |-> "p", w |-> c, ds |-> <<>>, n |-> 0]
Fill(m) == [k |-> "x", w |-> "", ds |-> <<>>, n |-> m]
\* what a matcher reads before the first and after the last lexeme
EndOfText == [k |-> "e", w |-> "", ds |-> <<>>, n |-> 0]

At(t, i) == IF i \in 1..Len(t) THEN t[i] ELSE EndOfText

\* the number of characters of a lexeme, of a text
CharLen(l) ==
    CASE l.k = "w" -> Len(l.w)
      [] l.k = "d" -> Len(l.ds)
      [] l.k = "x" -> l.n
      [] OTHER -> 1

RECURSIVE TextLen(_)
TextLen(t) == IF t = <<>> THEN 0 ELSE CharLen(Head(t)) + TextLen(Tail(t))

\* the character offset (0-based) at which lexeme i of t starts
Offset(t, i) == TextLen(SubSeq(t, 1, i - 1))

\* re.I, str.lower: the lower-case form of a word of Vocabulary
Lower(s) ==
    CASE s = "Net" -> "net"
      [] s = "NET" -> "net"
      [] s = "Within" -> "within"
      [] s = "Two" -> "two"
      [] s = "Each" -> "each"
      [] s = "Contractor" -> "contractor"
      [] s = "Client" -> "client"
      [] s = "Rev" -> "rev"
      [] s = "Capital" -> "capital"
      [] s = "RevCapital" -> "revcapital"
      [] s = "Indemnification" -> "indemnification"
      [] OTHER -> s

IsWord(l, s) == l.k = "w" /\ Lower(l.w) = s
IsSpace(l) == l.k = "s"
IsPunct(l, c) == l.k = "p" /\ l.w = c
\* \w: the lexeme is made of word characters
IsWordCh(l) == l.k \in {"w", "d"}

\* \s* from lexeme i on: the index of the first lexeme that is not whitespace
RECURSIVE SkipSp(_, _)
SkipSp(t, i) == IF IsSpace(At(t, i)) THEN SkipSp(t, i + 1) ELSE i

(***************************************************************************)
(* clean                                                                   *)
(***************************************************************************)
\* re.sub(r"\s+", " ", s): every run of whitespace becomes one space
RECURSIVE Collapse(_)
Collapse(t) ==
    IF t = <<>> THEN <<>>
    ELSE IF IsSpace(Head(t))
         THEN <<Sp>> \o Collapse(SubSeq(t, SkipSp(t, 1), Len(t)))
         ELSE <<Head(t)>> \o Collapse(Tail(t))

\* str.strip()
RECURSIVE Strip(_)
Strip(t) ==
    IF t = <<>> THEN <<>>
    ELSE IF IsSpace(Head(t)) THEN Strip(Tail(t))
    ELSE IF IsSpace(t[Len(t)]) THEN Strip(SubSeq(t, 1, Len(t) - 1))
    ELSE t

clean(s) == Strip(Collapse(s))

(***************************************************************************)
(* WORD, word_to_num, int                                                  *)
(***************************************************************************)
WORD ==
    [one |-> 1, two |-> 2, three |-> 3, four |-> 4, five |-> 5, six |-> 6,
     seven |-> 7, eight |-> 8, nine |-> 9, ten |-> 10, eleven |-> 11,
     twelve |-> 12, thirteen |-> 13, fourteen |-> 14, fifteen |-> 15,
     sixteen |-> 16, seventeen |-> 17, eighteen |-> 18, nineteen |-> 19,
     twenty |-> 20, thirty |-> 30, forty |-> 40, fifty |-> 50, sixty |-> 60,
     seventy |-> 70, eighty |-> 80, ninety |-> 90, hundred |-> 100]

\* x is a run of letters (a regex group [a-z]+) or "" for an absent group
word_to_num(x) ==
    IF x = "" THEN None
    ELSE IF Lower(x) \in DOMAIN WORD THEN Some(WORD[Lower(x)]) ELSE None

\* int(n) of a digit string
RECURSIVE ParseInt(_)
ParseInt(d) ==
    IF d = <<>> THEN 0 ELSE 10 * ParseInt(SubSeq(d, 1, Len(d) - 1)) + d[Len(d)]

\* a regex capture: digits (kind "d"), letters (kind "w") or nothing (kind "-")
NoGroup == [kind |-> "-", w |-> "", ds |-> <<>>]
DigitGroup(d) == [kind |-> "d", w |-> "", ds |-> d]
WordGroup(s) == [kind |-> "w", w |-> s, ds |-> <<>>]

\* n = int(n) if (n and n.isdigit()) else word_to_num(n)
ToNumber(g) ==
    IF g.kind = "d" THEN Some(ParseInt(g.ds)) ELSE word_to_num(g.w)

NoMatch == [ok |-> FALSE, g |-> NoGroup, end |-> 0]
Match(g, e) == [ok |-> TRUE, g |-> g, end |-> e]

(***************************************************************************)
(* find_payment_days: the relevant text (line 36)                          *)
(***************************************************************************)
\* re.search(r"(payment|invoice|receipt|payable|net|due|days?)", t, re.I):
\* the words of Vocabulary that hold a keyword as a substring
KeywordWords ==
    {"payment", "invoice", "receipt", "payable", "net", "due", "days", "day",
     "network", "internet", "overdue"}

HasKeyword(seg) == \E i \in 1..Len(seg) : seg[i].k = "w" /\ Lower(seg[i].w) \in KeywordWords

\* [\r\n.]
IsSplit(l) == IsPunct(l, ".") \/ (l.k = "s" /\ l.w = "\n")

\* re.split(r"[\r\n.]+", text): the segments between the separators
RECURSIVE Segments(_, _)
Segments(t, cur) ==
    IF t = <<>> THEN <<cur>>
    ELSE IF IsSplit(Head(t)) THEN <<cur>> \o Segments(Tail(t), <<>>)
    ELSE Segments(Tail(t), Append(cur, Head(t)))

\* ". ".join(segs)
RECURSIVE Join(_)
Join(segs) ==
    IF segs = <<>> THEN <<>>
    ELSE IF Len(segs) = 1 THEN segs[1]
    ELSE segs[1] \o <<Pn("."), Sp>> \o Join(Tail(segs))

Relevant(t) == Join(SelectSeq(Segments(t, <<>>), HasKeyword))

(***************************************************************************)
(* The "net" family (lines 38-43)                                          *)
(***************************************************************************)
\* \bnet[-\s]?((\d{1,3})|([a-z]+)\s*\(\s*(\d{1,3})\s*\)|([a-z]+))\b
\* the words of Vocabulary that start with "net", and what follows "net" in them
NetRest(s) ==
    CASE Lower(s) = "net" -> ""
      [] Lower(s) = "network" -> "work"
      [] OTHER -> "?"

StartsWithNet(l) == l.k = "w" /\ NetRest(l.w) # "?"

\* \d{1,3} on a digit run that the pattern must consume whole
Digits13(l) == l.k = "d" /\ Len(l.ds) \in 1..3

\* the alternative (\d{1,3}) then \b, at lexeme j
NetAltDigits(t, j) ==
    IF Digits13(At(t, j)) /\ ~IsWordCh(At(t, j + 1))
    THEN Match(DigitGroup(At(t, j).ds), j + 1)
    ELSE NoMatch

\* the alternative ([a-z]+)\s*\(\s*(\d{1,3})\s*\) then \b, the letters x ending
\* with lexeme j: after ")" a word boundary needs a word character to follow
NetAltWordParen(t, x, j) ==
    LET a == SkipSp(t, j + 1)
        b == SkipSp(t, a + 1)
        c == SkipSp(t, b + 1)
    IN  IF /\ IsPunct(At(t, a), "(")
           /\ Digits13(At(t, b))
           /\ IsPunct(At(t, c), ")")
           /\ IsWordCh(At(t, c + 1))
        THEN Match(DigitGroup(At(t, b).ds), c + 1)
        ELSE NoMatch

\* the alternative ([a-z]+) then \b, the letters x ending with lexeme j
NetAltWord(t, x, j) ==
    IF At(t, j + 1).k # "d" THEN Match(WordGroup(x), j + 1) ELSE NoMatch

\* the alternatives in the pattern's order, for letters x ending with lexeme j
NetWordAlts(t, x, j) ==
    IF NetAltWordParen(t, x, j).ok THEN NetAltWordParen(t, x, j)
    ELSE NetAltWord(t, x, j)

\* the alternatives at lexeme j, which follows "net" and the optional separator
NetAlts(t, j) ==
    IF At(t, j).k = "d" THEN NetAltDigits(t, j)
    ELSE IF At(t, j).k = "w" THEN NetWordAlts(t, At(t, j).w, j)
    ELSE NoMatch

\* [-\s]
IsNetSep(l) == IsPunct(l, "-") \/ IsSpace(l)

\* a match of the pattern that starts at lexeme i
NetMatchAt(t, i) ==
    IF ~(StartsWithNet(At(t, i)) /\ ~IsWordCh(At(t, i - 1))) THEN NoMatch
    ELSE IF NetRest(At(t, i).w) # "" THEN NetWordAlts(t, NetRest(At(t, i).w), i)
    ELSE IF IsNetSep(At(t, i + 1)) THEN NetAlts(t, i + 2)
    ELSE NetAlts(t, i + 1)

\* NetCandidate with the upper limit of the duration excluded (n < 365)
NetCandidate_ExclusiveUpper(n) ==
    IF n = None THEN <<>>
    ELSE IF n[1] = 2 THEN << <<2, 3>> >>
    ELSE IF 5 <= n[1] /\ n[1] < 365 THEN << <<n[1], 8>> >>
    ELSE <<>>

\* lines 42-43: the candidate of a resolved value
NetCandidate(n) ==
    IF n = None THEN <<>>
    ELSE IF n[1] = 2 THEN << <<2, 3>> >>
    ELSE IF 5 <= n[1] /\ n[1] <= 365 THEN << <<n[1], 8>> >>
    ELSE <<>>

\* re.finditer from lexeme pos on: the matches do not overlap
RECURSIVE NetPicks(_, _)
NetPicks(t, pos) ==
    IF pos > Len(t) THEN <<>>
    ELSE IF NetMatchAt(t, pos).ok
         THEN NetCandidate(ToNumber(NetMatchAt(t, pos).g)) \o NetPicks(t, NetMatchAt(t, pos).end)
         ELSE NetPicks(t, pos + 1)

(***************************************************************************)
(* The "due in / within" family (lines 44-49)                              *)
(***************************************************************************)
\* \b(?:due\s+(?:in|within)|within)\s+(?:\(?([a-z]+)\)?\s*)?
\*     (?:\(?(\d{1,3})\)?)?\s*(?:calendar\s*)?days?\b
\* (?:due\s+(?:in|within)|within) starting at lexeme i: the index after it, or 0
DueHead(t, i) ==
    IF IsWordCh(At(t, i - 1)) THEN 0
    ELSE IF /\ IsWord(At(t, i), "due")
            /\ IsSpace(At(t, i + 1))
            /\ \/ IsWord(At(t, SkipSp(t, i + 1)), "in")
               \/ IsWord(At(t, SkipSp(t, i + 1)), "within")
         THEN SkipSp(t, i + 1) + 1
    ELSE IF IsWord(At(t, i), "within") THEN i + 1
    ELSE 0

\* \(? and \)? : the index after an optional parenthesis c at lexeme i
SkipParen(t, i, c) == IF IsPunct(At(t, i), c) THEN i + 1 ELSE i

\* days?\b at lexeme i
IsDays(t, i) ==
    /\ IsWord(At(t, i), "days") \/ IsWord(At(t, i), "day")
    /\ At(t, i + 1).k # "d"

\* the rest of the pattern from lexeme g on (after \s+), with the optional
\* groups taken (TRUE) or skipped (FALSE): word group, digit group, calendar
DueTail(t, g, uw, un, uc) ==
    LET a  == SkipParen(t, g, "(")
        p1 == IF uw THEN SkipSp(t, SkipParen(t, a + 1, ")")) ELSE g
        b  == SkipParen(t, p1, "(")
        p2 == IF un THEN SkipParen(t, b + 1, ")") ELSE p1
        p3 == SkipSp(t, p2)
        p4 == IF uc THEN SkipSp(t, p3 + 1) ELSE p3
    IN  IF /\ uw => At(t, a).k = "w"
           /\ un => Digits13(At(t, b))
           /\ uc => IsWord(At(t, p3), "calendar")
           /\ IsDays(t, p4)
        THEN Match(IF un THEN DigitGroup(At(t, b).ds)       \* m.group(2) or m.group(1)
                   ELSE IF uw THEN WordGroup(At(t, a).w)
                   ELSE NoGroup,
                   p4 + 1)
        ELSE NoMatch

\* the order in which a backtracking matcher tries the optional groups:
\* each greedy, the last one given up first
DueOrder ==
    << <<TRUE, TRUE, TRUE>>, <<TRUE, TRUE, FALSE>>, <<TRUE, FALSE, TRUE>>,
       <<TRUE, FALSE, FALSE>>, <<FALSE, TRUE, TRUE>>, <<FALSE, TRUE, FALSE>>,
       <<FALSE, FALSE, TRUE>>, <<FALSE, FALSE, FALSE>> >>

RECURSIVE DueFirst(_, _, _)
DueFirst(t, g, k) ==
    IF k > Len(DueOrder) THEN NoMatch
    ELSE IF DueTail(t, g, DueOrder[k][1], DueOrder[k][2], DueOrder[k][3]).ok
         THEN DueTail(t, g, DueOrder[k][1], DueOrder[k][2], DueOrder[k][3])
         ELSE DueFirst(t, g, k + 1)

\* a match of the pattern that starts at lexeme i
DueMatchAt(t, i) ==
    IF DueHead(t, i) = 0 \/ ~IsSpace(At(t, DueHead(t, i))) THEN NoMatch
    ELSE DueFirst(t, SkipSp(t, DueHead(t, i)), 1)

\* DueCandidate without the branch for the value 2, the range starting at 2
DueCandidate_TwoAsDuration(n) ==
    IF n = None THEN <<>>
    ELSE IF 2 <= n[1] /\ n[1] <= 365 THEN << <<n[1], 7>> >>
    ELSE <<>>

\* lines 48-49
DueCandidate(n) ==
    IF n = None THEN <<>>
    ELSE IF n[1] = 2 THEN << <<2, 3>> >>
    ELSE IF 5 <= n[1] /\ n[1] <= 365 THEN << <<n[1], 7>> >>
    ELSE <<>>

RECURSIVE DuePicks(_, _)
DuePicks(t, pos) ==
    IF pos > Len(t) THEN <<>>
    ELSE IF DueMatchAt(t, pos).ok
         THEN DueCandidate(ToNumber(DueMatchAt(t, pos).g)) \o DuePicks(t, DueMatchAt(t, pos).end)
         ELSE DuePicks(t, pos + 1)

(***************************************************************************)
(* The "past due" family (lines 50-52)                                     *)
(***************************************************************************)
\* \bpast\s+due\s+(?:after\s+)?(\d{1,3})\s*days?\b
PastMatchAt(t, i) ==
    LET a == SkipSp(t, i + 1)                       \* "due"
        b == SkipSp(t, a + 1)                       \* "after" or the digits
        c == IF IsWord(At(t, b), "after") /\ IsSpace(At(t, b + 1))
             THEN SkipSp(t, b + 1) ELSE b           \* the digits
        d == SkipSp(t, c + 1)                       \* "days"
    IN  IF /\ IsWord(At(t, i), "past") /\ ~IsWordCh(At(t, i - 1))
           /\ IsSpace(At(t, i + 1)) /\ IsWord(At(t, a), "due")
           /\ IsSpace(At(t, a + 1))
           /\ Digits13(At(t, c))
           /\ IsDays(t, d)
        THEN Match(DigitGroup(At(t, c).ds), d + 1)
        ELSE NoMatch

\* line 52: n = int(m.group(1)); a value 2 is not a candidate here
PastCandidate(n) ==
    IF 5 <= n /\ n <= 365 THEN << <<n, 5>> >> ELSE <<>>

RECURSIVE PastPicks(_, _)
PastPicks(t, pos) ==
    IF pos > Len(t) THEN <<>>
    ELSE IF PastMatchAt(t, pos).ok
         THEN PastCandidate(ParseInt(PastMatchAt(t, pos).g.ds)) \o PastPicks(t, PastMatchAt(t, pos).end)
         ELSE PastPicks(t, pos + 1)

(***************************************************************************)
(* EXPLICIT_TWO (line 33)                                                  *)
(***************************************************************************)
\* \b(net\s*2|within\s*\(?2\)?\s*(?:business\s*)?days?)\b
\* the literal 2 at lexeme i: the digit run is "2" and nothing more
IsTwo(l) == l.k = "d" /\ l.ds = <<2>>

\* ExplicitNetAt without \s* between "net" and the 2
ExplicitNetAt_NoSpace(t, i) ==
    /\ IsWord(At(t, i), "net") /\ ~IsWordCh(At(t, i - 1))
    /\ IsTwo(At(t, i + 1))
    /\ ~IsWordCh(At(t, i + 2))

\* net\s*2 then \b
ExplicitNetAt(t, i) ==
    /\ IsWord(At(t, i), "net") /\ ~IsWordCh(At(t, i - 1))
    /\ IsTwo(At(t, SkipSp(t, i + 1)))
    /\ ~IsWordCh(At(t, SkipSp(t, i + 1) + 1))

\* within\s*\(?2\)?\s*(?:business\s*)?days? then \b
ExplicitWithinAt(t, i) ==
    LET a == SkipParen(t, SkipSp(t, i + 1), "(")    \* the 2
        b == SkipSp(t, SkipParen(t, a + 1, ")"))    \* "business" or "days"
        c == IF IsWord(At(t, b), "business") THEN SkipSp(t, b + 1) ELSE b
    IN  /\ IsWord(At(t, i), "within") /\ ~IsWordCh(At(t, i - 1))
        /\ IsTwo(At(t, a))
        /\ IsDays(t, c)

\* EXPLICIT_TWO.search(t)
EXPLICIT_TWO(t) == \E i \in 1..Len(t) : ExplicitNetAt(t, i) \/ ExplicitWithinAt(t, i)

(***************************************************************************)
(* find_payment_days: the resolver (lines 53-58)                           *)
(***************************************************************************)
\* lines 37-52: the candidates, family after family
Candidates(rel) == NetPicks(rel, 1) \o DuePicks(rel, 1) \o PastPicks(rel, 1)

\* KeyLess with the priority ascending: key=lambda x: (x[1], x[0])
KeyLess_AscendingPriority(a, b) == (a[2] < b[2]) \/ (a[2] = b[2] /\ a[1] < b[1])

\* key=lambda x: (-x[1], x[0]) : a sorts strictly before b
KeyLess(a, b) == (0 - a[2] < 0 - b[2]) \/ (a[2] = b[2] /\ a[1] < b[1])

\* list.sort is stable: c goes after the elements that do not sort after it
RECURSIVE Insert(_, _)
Insert(c, s) ==
    IF s = <<>> THEN <<c>>
    ELSE IF KeyLess(c, Head(s)) THEN <<c>> \o s
    ELSE <<Head(s)>> \o Insert(c, Tail(s))

RECURSIVE SortPicks(_)
SortPicks(s) ==
    IF s = <<>> THEN <<>>
    ELSE Insert(s[Len(s)], SortPicks(SubSeq(s, 1, Len(s) - 1)))

\* lines 53-58, on the sorted candidates
Resolve(sorted, rel) ==
    IF sorted = <<>> THEN None
    ELSE IF sorted[1][1] = 2 /\ ~EXPLICIT_TWO(rel) THEN None
    ELSE Some(sorted[1][1])

find_payment_days(t) == Resolve(SortPicks(Candidates(Relevant(t))), Relevant(t))

(***************************************************************************)
(* Inputs of find_payment_days                                             *)
(***************************************************************************)
\* str(d) for d >= 0: the decimal digits
RECURSIVE Digits(_)
Digits(d) == IF d < 10 THEN <<d>> ELSE Digits(d \div 10) \o <<d % 10>>

\* how many sentences a text of PayTexts holds at most
MaxSentences == 2

SNet2 == <<Wd("Net"), Sp, Nm(<<2>>)>>
SNetHyphen2 == <<Wd("net"), Pn("-"), Nm(<<2>>), Sp, Wd("days")>>
SNetTwo == <<Wd("net"), Sp, Wd("two"), Sp, Wd("days")>>
SDueIn2 == <<Wd("payment"), Sp, Wd("due"), Sp, Wd("in"), Sp, Nm(<<2>>), Sp, Wd("days")>>
SWithinParen2 == <<Wd("within"), Sp, Pn("("), Nm(<<2>>), Pn(")"), Sp, Wd("days")>>
SWithin2Business == <<Wd("within"), Sp, Nm(<<2>>), Sp, Wd("business"), Sp, Wd("days")>>
SNet30 == <<Wd("net"), Sp, Nm(<<3, 0>>), Sp, Wd("days")>>
SNetThirty == <<Wd("NET"), Sp, Wd("thirty"), Sp, Pn("("), Nm(<<3, 0>>), Pn(")"), Sp, Wd("days")>>
SNet45 == <<Wd("net"), Nm(<<4, 5>>)>>
SDueWithin45 == <<Wd("due"), Sp, Wd("within"), Sp, Nm(<<4, 5>>), Sp, Wd("days")>>
SDueIn60 == <<Wd("due"), Sp, Wd("in"), Sp, Nm(<<6, 0>>), Sp, Wd("days")>>
SWithinTen == <<Wd("Within"), Sp, Wd("ten"), Sp, Wd("calendar"), Sp, Wd("days")>>
SPastDue10 == <<Wd("past"), Sp, Wd("due"), Sp, Wd("after"), Sp, Nm(<<1, 0>>), Sp, Wd("days")>>
SPastDue90 == <<Wd("past"), Sp, Wd("due"), Sp, Nm(<<9, 0>>), Sp, Wd("days")>>
SNet400 == <<Wd("net"), Sp, Nm(<<4, 0, 0>>), Sp, Wd("days")>>
SNetwork == <<Wd("network"), Sp, Nm(<<3, 0>>), Sp, Wd("days")>>
STerms == <<Wd("terms"), Sp, Wd("apply")>>

Sentences ==
    <<SNet2, SNetHyphen2, SNetTwo, SDueIn2, SWithinParen2, SWithin2Business,
      SNet30, SNetThirty, SNet45, SDueWithin45, SDueIn60, SWithinTen,
      SPastDue10, SPastDue90, SNet400, SNetwork, STerms>>

\* the sentences ss, each closed by "." and separated by one space
RECURSIVE Paragraph(_)
Paragraph(ss) ==
    IF ss = <<>> THEN <<>>
    ELSE IF Len(ss) = 1 THEN ss[1] \o <<Pn(".")>>
    ELSE ss[1] \o <<Pn("."), Sp>> \o Paragraph(Tail(ss))

\* the sentences that produce no candidate and hold no two-day phrase
QuietSentences == {SNet400, SNetwork, STerms}

\* line 43: the durations of a net-family candidate of priority 8
MinDays == 5
MaxDays == 365

\* a "net d days" sentence with d in digits, alone or beside a quiet sentence
NetDays(d) == <<Wd("net"), Sp, Nm(Digits(d)), Sp, Wd("days")>>

NetDaysTexts(d) ==
    {Paragraph(<<NetDays(d)>>)}
        \cup {Paragraph(<<NetDays(d), q>>) : q \in QuietSentences}
        \cup {Paragraph(<<q, NetDays(d)>>) : q \in QuietSentences}

PayTexts ==
    {Paragraph([i \in 1..Len(ix) |-> Sentences[ix[i]]]) :
        ix \in UNION {[1..m -> 1..Len(Sentences)] : m \in 1..MaxSentences}}
        \cup UNION {NetDaysTexts(d) : d \in MinDays..MaxDays}

(***************************************************************************)
(* Specification of find_payment_days as a called function                 *)
(***************************************************************************)
\* the variables of the other operations, idle
IdleIndemnity == block = <<>> /\ indem = ""
IdleServer == OCR_OK = FALSE /\ req = <<>> /\ loop = 0

InitPayment ==
    /\ text \in PayTexts
    /\ called = FALSE
    /\ relevant = <<>>
    /\ picks = <<>>
    /\ days = None
    /\ IdleIndemnity
    /\ IdleServer

\* days = find_payment_days(text)
CallFindPaymentDays ==
    /\ ~called
    /\ called' = TRUE
    /\ relevant' = Relevant(text)
    /\ picks' = SortPicks(Candidates(relevant'))
    /\ days' = Resolve(picks', relevant')
    /\ UNCHANGED <<text, block, indem, OCR_OK, req, loop>>

NextPayment == CallFindPaymentDays

SpecPayment == InitPayment /\ [][NextPayment]_vars

(***************************************************************************)
(* Claims about find_payment_days (checked under SpecPayment)              *)
(***************************************************************************)
\* candidate a is at least as good as candidate b: higher priority, or the
\* same priority and a duration that is not larger
AtLeastAsGood(a, b) == a[2] > b[2] \/ (a[2] = b[2] /\ a[1] <= b[1])

\* the priority a candidate of each family carries
WellRanked(c) ==
    \/ c[2] \in {8, 7, 5} /\ c[1] \in MinDays..MaxDays
    \/ c[2] = 3 /\ c[1] = 2

\* C1: for every non-empty candidate list (priority 8, 7 or 5 for a duration
\* in 5..365, priority 3 for the value 2) the winner is a candidate of
\* maximal priority and, among those, of smallest duration, wherever the
\* candidates stand in the text; (45,7),(10,5) resolves to 45 in both
\* orders and (30,8),(60,7) resolves to 30.
C1_WinnerIsBest ==
    called =>
        LET c == Candidates(relevant)
        IN  /\ Len(picks) = Len(c)
            /\ \A i \in 1..Len(c) : WellRanked(c[i])
            /\ c # <<>> =>
                /\ \E i \in 1..Len(c) : c[i] = picks[1]
                /\ \A j \in 1..Len(c) : AtLeastAsGood(picks[1], c[j])
                /\ picks[1][1] # 2 => days = Some(picks[1][1])
            /\ text = Paragraph(<<SDueWithin45, SPastDue10>>) => days = Some(45)
            /\ text = Paragraph(<<SPastDue10, SDueWithin45>>) => days = Some(45)
            /\ text = Paragraph(<<SNet30, SDueIn60>>) => days = Some(30)
            /\ text = Paragraph(<<SDueIn60, SNet30>>) => days = Some(30)

\* the lower-priority candidate stands first in the text and loses
C1_Witness ==
    /\ called
    /\ text = Paragraph(<<SPastDue10, SDueWithin45>>)
    /\ Candidates(relevant) = << <<45, 7>>, <<10, 5>> >>
    /\ days = Some(45)

\* a "Net 2" phrase (the digit 2 one whitespace after "net") that the net
\* family matches at lexeme i of t
IsNet2PhraseAt(t, i) ==
    /\ IsWord(At(t, i), "net") /\ IsSpace(At(t, i + 1)) /\ IsTwo(At(t, i + 2))
    /\ NetMatchAt(t, i).ok

\* an explicit two-day anchor phrase stands in t at a lexeme other than i
AnchorElsewhere(t, i) ==
    \E j \in 1..Len(t) : j # i /\ (ExplicitNetAt(t, j) \/ ExplicitWithinAt(t, j))

\* "Net 2" is the only candidate-producing phrase of the relevant text and
\* no other two-day anchor phrase occurs in it
OnlyNet2 ==
    /\ called
    /\ picks = << <<2, 3>> >>
    /\ \E i \in 1..Len(relevant) :
          IsNet2PhraseAt(relevant, i) /\ ~AnchorElsewhere(relevant, i)

OnlyImplicitTwo ==
    /\ called
    /\ picks = << <<2, 3>> >>
    /\ \A i \in 1..Len(relevant) :
          ~IsNet2PhraseAt(relevant, i) /\ ~AnchorElsewhere(relevant, 0)

ClaimedTwoFormAt(t, i) ==
    \/ /\ IsWord(At(t, i), "net") /\ ~IsWordCh(At(t, i - 1))
       /\ IsSpace(At(t, i + 1)) \/ IsPunct(At(t, i + 1), "-")
       /\ IsTwo(At(t, i + 2)) /\ ~IsWordCh(At(t, i + 3))
    \/ ExplicitNetAt(t, i)
    \/ ExplicitWithinAt(t, i)

\* C3: whenever the winning candidate has value 2, the result is 2 if the
\* relevant text holds an explicit two-day phrase of the form "net 2",
\* "net-2" or "within (2) days", and absent otherwise, whatever phrase
\* produced the candidate.
C3_TwoNeedsExplicitForm ==
    (called /\ picks # <<>> /\ picks[1][1] = 2) =>
        IF \E i \in 1..Len(relevant) : ClaimedTwoFormAt(relevant, i)
        THEN days = Some(2)
        ELSE days = None

\* C4: for every d in 5..365 written in digits in a "net d days" sentence,
\* with no other candidate-producing sentence in the text, the result is d.
C4_NetDaysReturnsD ==
    \A d \in MinDays..MaxDays :
        (called /\ text \in NetDaysTexts(d)) => days = Some(d)

C4_Witness ==
    /\ called
    /\ text = Paragraph(<<SNetwork, NetDays(MaxDays)>>)
    /\ days = Some(MaxDays)

\* C10: a candidate list that holds a duration in 5..365 never resolves to
\* absent or to 2 but to a duration in 5..365, however many value-2
\* candidates it holds and whether or not an explicit two-day phrase
\* occurs; so the result is always absent, 2, or a value in 5..365.
C10_GuardOnlyHitsTwo ==
    called =>
        /\ (\E i \in 1..Len(picks) : picks[i][1] \in MinDays..MaxDays) =>
              (days # None /\ days[1] \in MinDays..MaxDays)
        /\ days = None \/ days = Some(2) \/ days[1] \in MinDays..MaxDays

\* a value-2 candidate without an explicit phrase beside a real duration
C10_Witness ==
    /\ called
    /\ \E i \in 1..Len(picks) : picks[i] = <<2, 3>>
    /\ ~EXPLICIT_TWO(relevant)
    /\ days = Some(10)

(***************************************************************************)
(* find_indemnity (lines 70-73)                                            *)
(***************************************************************************)
\* .{0,200} and .{0,400} of the block pattern
Before == 200
After == 400

\* indemnif(?:y|ication) in a word of Vocabulary: the number of characters of
\* the occurrence, or 0 when the word holds none
OccLen(l) ==
    IF l.k # "w" THEN 0
    ELSE CASE Lower(l.w) = "indemnify" -> 9
           [] Lower(l.w) = "indemnification" -> 15
           [] OTHER -> 0

\* the character offsets at which an occurrence starts
OccOffsets(t) == {Offset(t, i) : i \in {j \in 1..Len(t) : OccLen(t[j]) > 0}}

\* the number of characters of the occurrence that starts at offset p
OccLenAt(t, p) ==
    OccLen(t[CHOOSE i \in 1..Len(t) : OccLen(t[i]) > 0 /\ Offset(t, i) = p])

Min(S) == CHOOSE x \in S : \A y \in S : x <= y
Max(S) == CHOOSE x \in S : \A y \in S : x >= y

\* re.search(r".{0,200}indemnif(?:y|ication).{0,400}", text, re.I) on a text
\* without line breaks: the leftmost start s from which the pattern matches,
\* from s the longest prefix .{0,200} that an occurrence follows, and after
\* the occurrence the longest suffix .{0,400}.  <<>> when nothing matches.
BlockSpan(t) ==
    LET occ == OccOffsets(t)
        len == TextLen(t)
    IN  IF occ = {} THEN <<>>
        ELSE LET s == Min({x \in 0..len : \E p \in occ : x <= p /\ p <= x + Before})
                 p == Max({q \in occ : s <= q /\ q <= s + Before})
                 e == p + OccLenAt(t, p) + After
             IN  <<s, IF e < len THEN e ELSE len>>

\* a word of Vocabulary that starts with "indemn"
StartsIndemn(l) ==
    l.k = "w" /\ Lower(l.w) \in {"indemnify", "indemnification", "indemnifies", "indemnity"}

\* (each\s+party|mutual(?:ly)?\s+indemn|both\s+parties) starting at lexeme i:
\* the offsets <<start, end>> of the match, or <<>>
MutualAt(t, i) ==
    LET j == SkipSp(t, i + 1)
    IN  IF ~IsSpace(At(t, i + 1)) THEN <<>>
        ELSE IF IsWord(At(t, i), "each") /\ IsWord(At(t, j), "party")
             THEN <<Offset(t, i), Offset(t, j) + 5>>
        ELSE IF (IsWord(At(t, i), "mutual") \/ IsWord(At(t, i), "mutually")) /\ StartsIndemn(At(t, j))
             THEN <<Offset(t, i), Offset(t, j) + 6>>
        ELSE IF IsWord(At(t, i), "both") /\ IsWord(At(t, j), "parties")
             THEN <<Offset(t, i), Offset(t, j) + 7>>
        ELSE <<>>

\* the mutuality pattern matches inside the characters s..e-1 of t
MutualWithin(t, s, e) ==
    \E i \in 1..Len(t) :
        LET m == MutualAt(t, i)
        IN  m # <<>> /\ s <= m[1] /\ m[2] <= e

\* lines 72-73, on the span of the block
Classify(t, span) ==
    IF span = <<>> THEN "none"
    ELSE IF MutualWithin(t, span[1], span[2]) THEN "mutual"
    ELSE "one-sided"

find_indemnity(t) == Classify(t, BlockSpan(t))

(***************************************************************************)
(* Inputs of find_indemnity: normalized texts (no line break, single       *)
(* spaces, no space at either end)                                         *)
(***************************************************************************)
\* m >= 1 characters between two words: a space, or filler between spaces
Gap(m) == IF m < 3 THEN <<Sp>> ELSE <<Sp, Fill(m - 2), Sp>>

\* m characters before the first word
Lead(m) == IF m < 2 THEN <<>> ELSE <<Fill(m - 1), Sp>>

PIndemnify == <<Wd("indemnify")>>
PIndemnification == <<Wd("Indemnification")>>
PEachParty == <<Wd("Each"), Sp, Wd("party")>>
PBothParties == <<Wd("both"), Sp, Wd("parties")>>
PMutually == <<Wd("mutually"), Sp, Wd("indemnifies")>>
PContractor == <<Wd("Contractor"), Sp, Wd("shall")>>

Pieces == {PIndemnify, PIndemnification, PEachParty, PBothParties, PMutually, PContractor}

\* the gaps that put a phrase just inside and just outside the window
LeadSizes == {0, Before + 50}
GapSizes == {1, Before - 100, Before - 10, Before - 9, After - 50, After - 10, After - 9}

IndemTexts ==
    {Lead(a) \o x \o Gap(b) \o y \o Gap(c) \o z :
        a \in LeadSizes, b \in GapSizes, c \in GapSizes,
        x \in Pieces, y \in Pieces, z \in Pieces}

(***************************************************************************)
(* Specification of find_indemnity as a called function                    *)
(***************************************************************************)
IdlePayment == relevant = <<>> /\ picks = <<>> /\ days = None

InitIndemnity ==
    /\ text \in IndemTexts
    /\ called = FALSE
    /\ block = <<>>
    /\ indem = ""
    /\ IdlePayment
    /\ IdleServer

\* indem = find_indemnity(text)
CallFindIndemnity ==
    /\ ~called
    /\ called' = TRUE
    /\ block' = BlockSpan(text)
    /\ indem' = Classify(text, block')
    /\ UNCHANGED <<text, relevant, picks, days, OCR_OK, req, loop>>

NextIndemnity == CallFindIndemnity

SpecIndemnity == InitIndemnity /\ [][NextIndemnity]_vars

(***************************************************************************)
(* Claim about find_indemnity (checked under SpecIndemnity)                *)
(***************************************************************************)
\* the window the claim describes: at most 200 characters before and at most
\* 400 characters after the FIRST occurrence
FirstWindow(t) ==
    LET p == Min(OccOffsets(t))
        e == p + OccLenAt(t, p) + After
    IN  <<IF p < Before THEN 0 ELSE p - Before,
          IF e < TextLen(t) THEN e ELSE TextLen(t)>>

\* C5: find_indemnity returns "none" iff the text holds no occurrence of
\* "indemnify"/"indemnification"; otherwise "mutual" iff a mutuality phrase
\* lies inside the window of at most 200 characters before and at most 400
\* characters after the FIRST occurrence, and "one-sided" otherwise, also
\* when several occurrences stand less than 200 characters apart.
C5_WindowAroundFirst ==
    called =>
        IF OccOffsets(text) = {} THEN indem = "none"
        ELSE IF MutualWithin(text, FirstWindow(text)[1], FirstWindow(text)[2])
             THEN indem = "mutual"
             ELSE indem = "one-sided"

(***************************************************************************)
(* find_noa, find_nonsolicit, find_conversions (lines 60-68)               *)
(***************************************************************************)
\* the words ws, in this order, with \s+ between them, starting at lexeme i
RECURSIVE PhraseAt(_, _, _)
PhraseAt(t, i, ws) ==
    /\ IsWord(At(t, i), ws[1])
    /\ \/ Len(ws) = 1
       \/ IsSpace(At(t, i + 1)) /\ PhraseAt(t, SkipSp(t, i + 1), Tail(ws))

HasPhrase(t, ws) == \E i \in 1..Len(t) : PhraseAt(t, i, ws)

\* a[-\s]?b : the words a and b with one separator between them, or joined
\* in one word
HasJoined(t, a, b, joined) ==
    \E i \in 1..Len(t) :
        \/ IsWord(At(t, i), a) /\ IsNetSep(At(t, i + 1)) /\ IsWord(At(t, i + 2), b)
        \/ IsWord(At(t, i), joined)

\* \brev\s*capital\b
HasRevCapital(t) ==
    \E i \in 1..Len(t) :
        \/ /\ IsWord(At(t, i), "rev") /\ ~IsWordCh(At(t, i - 1))
           /\ IsSpace(At(t, i + 1))
           /\ IsWord(At(t, SkipSp(t, i + 1)), "capital")
           /\ ~IsWordCh(At(t, SkipSp(t, i + 1) + 1))
        \/ /\ IsWord(At(t, i), "revcapital")
           /\ ~IsWordCh(At(t, i - 1)) /\ ~IsWordCh(At(t, i + 1))

find_noa(t) ==
    /\ \/ HasPhrase(t, <<"notice", "of", "assignment">>)
       \/ HasPhrase(t, <<"assignment", "notice">>)
       \/ HasPhrase(t, <<"assignment", "of", "accounts">>)
    /\ HasRevCapital(t)

find_nonsolicit(t) ==
    \/ HasJoined(t, "non", "solicit", "nonsolicit")
    \/ HasJoined(t, "non", "hire", "nonhire")
    \/ HasPhrase(t, <<"client", "hire">>)
    \/ HasPhrase(t, <<"liquidated", "damages">>)
    \/ HasPhrase(t, <<"conversion", "fee">>)

\* temp[-\s]?to[-\s]?perm
HasTempToPerm(t) ==
    \E i \in 1..Len(t) :
        /\ IsWord(At(t, i), "temp") /\ IsNetSep(At(t, i + 1))
        /\ IsWord(At(t, i + 2), "to") /\ IsNetSep(At(t, i + 3))
        /\ IsWord(At(t, i + 4), "perm")

find_conversions(t) ==
    \/ \E i \in 1..Len(t) : IsWord(At(t, i), "conversion") \/ IsWord(At(t, i), "conversions")
    \/ HasTempToPerm(t)

(***************************************************************************)
(* extract_text_from_pdf, extract_text (lines 75-108)                      *)
(*                                                                         *)
(* An uploaded file f is described by what the decoders make of its bytes: *)
(*   f.ext      what the lower-cased file name ends with: "txt", "docx",   *)
(*              "pdf", or "" for anything else                             *)
(*   f.bad      the primary decoder (docx2txt.process, pdfminer's          *)
(*              extract_text, bytes.decode) raises on the bytes            *)
(*   f.content  the text the primary decoder returns when it does not      *)
(*   f.ocrBad   convert_from_bytes or pytesseract raises on the bytes      *)
(*   f.pages    the text pytesseract reads on each page image              *)
(***************************************************************************)
\* pages[:20]
OcrPages == 20

\* "\n".join(ocr_txt)
RECURSIVE JoinLines(_)
JoinLines(ps) ==
    IF ps = <<>> THEN <<>>
    ELSE IF Len(ps) = 1 THEN ps[1]
    ELSE ps[1] \o <<Nl>> \o JoinLines(Tail(ps))

extract_text_from_pdf(f, ocr_ok) ==
    IF ~f.bad /\ clean(f.content) # <<>> THEN f.content
    ELSE IF ocr_ok /\ ~f.ocrBad
         THEN JoinLines(SubSeq(f.pages, 1, IF Len(f.pages) < OcrPages THEN Len(f.pages) ELSE OcrPages))
    ELSE <<>>

\* the outcome of extract_text(file): the text returned, or an exception
Returned(t) == [raised |-> FALSE, text |-> t]
Raised == [raised |-> TRUE, text |-> <<>>]

extract_text(f, ocr_ok) ==
    CASE f.ext = "txt" -> Returned(f.content)       \* decode(errors="ignore")
      [] f.ext = "docx" -> IF f.bad THEN Raised ELSE Returned(f.content)
      [] f.ext = "pdf" -> Returned(extract_text_from_pdf(f, ocr_ok))
      [] OTHER -> IF f.bad THEN Returned(<<>>) ELSE Returned(f.content)

(***************************************************************************)
(* analyze: the lights and the cards (lines 123-139)                       *)
(***************************************************************************)
Light(label, status, note) == [label |-> label, status |-> status, note |-> note]
Card(title, body) == [title |-> title, body |-> body]

\* f"({days} days)" and f"Reason: Terms - {days} days" (the dash and the
\* quotation marks of the card bodies are written in ASCII here)
DaysNote(d) == <<"(", Digits(d), " days)">>
DaysBody(d) == <<"Reason: Terms - ", Digits(d), " days">>

\* PaymentLight with the first threshold strict (days < 30)
PaymentLight_StrictThirty(d) ==
    IF d = None THEN Light("Payment Terms", "fail", <<"(not found)">>)
    ELSE IF d[1] < 30 THEN Light("Payment Terms", "pass", DaysNote(d[1]))
    ELSE IF d[1] <= 60 THEN Light("Payment Terms", "warn", DaysNote(d[1]))
    ELSE Light("Payment Terms", "fail", DaysNote(d[1]))

\* lines 124-127
PaymentLight(d) ==
    IF d = None THEN Light("Payment Terms", "fail", <<"(not found)">>)
    ELSE IF d[1] <= 30 THEN Light("Payment Terms", "pass", DaysNote(d[1]))
    ELSE IF d[1] <= 60 THEN Light("Payment Terms", "warn", DaysNote(d[1]))
    ELSE Light("Payment Terms", "fail", DaysNote(d[1]))

\* lines 123-132
Lights(d, noa, ns, conv, ind) ==
    << PaymentLight(d),
       Light("NOA to Rev Capital", IF noa THEN "pass" ELSE "fail",
             IF noa THEN <<"(found)">> ELSE <<"(not found)">>),
       Light("Client Hire / Non-Solicit", IF ns THEN "pass" ELSE "warn",
             IF ns THEN <<"(present)">> ELSE <<"(missing)">>),
       Light("Conversions", IF conv THEN "pass" ELSE "warn",
             IF conv THEN <<"(present)">> ELSE <<"(missing)">>),
       Light("Indemnity", IF ind \in {"none", "mutual"} THEN "pass" ELSE "fail",
             IF ind = "mutual" THEN <<"(mutual)">>
             ELSE IF ind = "none" THEN <<"(none)">> ELSE <<"(one-sided)">>),
       Light("Insurance", "warn", <<"(client minimums not auto-evaluated here)">>) >>

\* Cards with a card for Insurance appended
Cards_WithInsurance(d, noa, ns, conv, ind) ==
    << Card("Payment Terms", <<"Reason: Terms">>),
       Card("Notice of Assignment", <<"Reason: NOA">>),
       Card("Client Hire / Non-Solicit", IF ns THEN <<"Present">> ELSE <<"Missing">>),
       Card("Conversions (Temp-to-Perm)", IF conv THEN <<"Present">> ELSE <<"Missing">>),
       Card("Indemnity", <<ind>>),
       Card("Insurance", <<"Not evaluated">>) >>

\* lines 134-139
Cards(d, noa, ns, conv, ind) ==
    << Card("Payment Terms",
            IF d = None THEN <<"Reason: Terms - (not found)">> ELSE DaysBody(d[1])),
       Card("Notice of Assignment",
            IF noa THEN <<"Reason: NOA referencing Rev Capital present.">>
            ELSE <<"Reason: NOA not found - must include verbatim 'Rev Capital' language.">>),
       Card("Client Hire / Non-Solicit", IF ns THEN <<"Present">> ELSE <<"Missing">>),
       Card("Conversions (Temp-to-Perm)", IF conv THEN <<"Present">> ELSE <<"Missing">>),
       Card("Indemnity",
            IF ind = "mutual" THEN <<"Mutual">>
            ELSE IF ind = "none" THEN <<"None (preferred)">>
            ELSE <<"One-sided (client-favored)">>) >>

(***************************************************************************)
(* Uploaded documents                                                      *)
(***************************************************************************)
CNotice == <<Wd("notice"), Sp, Wd("of"), Sp, Wd("assignment")>>
CNoticeRev == CNotice \o <<Sp, Wd("to"), Sp, Wd("Rev"), Sp, Wd("Capital")>>
CNonSolicit == <<Wd("non"), Pn("-"), Wd("solicit"), Sp, Wd("applies")>>
CConversionFee == <<Wd("conversion"), Sp, Wd("fee"), Sp, Wd("applies")>>
CTempToPerm == <<Wd("temp"), Pn("-"), Wd("to"), Pn("-"), Wd("perm")>>
CMutual == <<Wd("Each"), Sp, Wd("party"), Sp, Wd("shall"), Sp, Wd("indemnify")>>
COneSided == <<Wd("Contractor"), Sp, Wd("shall"), Sp, Wd("indemnify"), Sp, Wd("Client")>>

\* the raw text of a document: each clause on a line of its own
RECURSIVE RawText(_)
RawText(cs) ==
    IF cs = <<>> THEN <<>>
    ELSE IF Head(cs) = <<>> THEN RawText(Tail(cs))
    ELSE Head(cs) \o <<Pn("."), Nl>> \o RawText(Tail(cs))

Documents ==
    {RawText(<<p, a, h, i>>) :
        p \in {<<>>, SNet30, SNet45, SPastDue90, SNet2, SNetTwo},
        a \in {<<>>, CNotice, CNoticeRev},
        h \in {<<>>, CNonSolicit, CConversionFee, CTempToPerm},
        i \in {<<>>, CMutual, COneSided}}

\* a text of whitespace only, and two short documents
Blank == <<Sp, Nl, Sp>>
Sample == RawText(<<SNet45, CNoticeRev>>)
Scanned == RawText(<<SPastDue90, COneSided>>)

File(e, b, c, ob, ps) == [ext |-> e, bad |-> b, content |-> c, ocrBad |-> ob, pages |-> ps]

Uploads ==
    {File("txt", FALSE, d, FALSE, <<>>) : d \in Documents \cup {Blank}}
        \cup {File(e, b, c, ob, ps) :
                e \in {"docx", "pdf", ""}, b \in BOOLEAN, c \in {<<>>, Blank, Sample},
                ob \in BOOLEAN, ps \in {<<>>, <<Scanned>>, <<Blank, Scanned>>}}

\* the uploads of the requests that run side by side: a text file, a scanned
\* PDF that needs OCR, a damaged .docx
LoopUploads ==
    {File("txt", FALSE, Sample, FALSE, <<>>),
     File("pdf", FALSE, <<>>, FALSE, <<Blank, Scanned>>),
     File("docx", TRUE, <<>>, FALSE, <<>>)}

(***************************************************************************)
(* analyze (lines 110-141) on the event loop                               *)
(*                                                                         *)
(* analyze is a coroutine function without an await: from its first line   *)
(* to its return (or its exception) it runs on the event-loop thread,      *)
(* which runs no other handler meanwhile.  req[r].pc is the position of    *)
(* the handler of request r:                                               *)
(*   "ready"       the request is accepted, the handler not yet started    *)
(*   "extracting"  line 112, extract_text(file) is running                 *)
(*   "extracted"   extract_text has returned text_raw                      *)
(*   "done"        the response is produced                                *)
(***************************************************************************)
\* how many requests are in flight at most
MaxRequests == 2

NewRequest(f) ==
    [pc |-> "ready", file |-> f, text_raw |-> <<>>, text_norm |-> <<>>,
     detected |-> FALSE, days |-> None, noa |-> FALSE, ns |-> FALSE,
     conv |-> FALSE, indem |-> "", status |-> 0, lights |-> <<>>, cards |-> <<>>]

\* line 111: the event loop starts the handler of r and enters extract_text
Begin(r) ==
    /\ loop = 0
    /\ req[r].pc = "ready"
    /\ loop' = r
    /\ req' = [req EXCEPT ![r].pc = "extracting"]
    /\ UNCHANGED <<text, called, relevant, picks, days, block, indem, OCR_OK>>

\* line 112: extract_text returns, or raises: nothing in analyze catches the
\* exception, the request ends as a server error (status 500)
ExtractText(r) ==
    /\ loop = r
    /\ req[r].pc = "extracting"
    /\ LET out == extract_text(req[r].file, OCR_OK)
       IN  IF out.raised
           THEN /\ req' = [req EXCEPT ![r].pc = "done", ![r].status = 500]
                /\ loop' = 0
           ELSE /\ req' = [req EXCEPT ![r].pc = "extracted", ![r].text_raw = out.text]
                /\ loop' = loop
    /\ UNCHANGED <<text, called, relevant, picks, days, block, indem, OCR_OK>>

\* lines 113-141: normalize, refuse an empty text with 422, else run the
\* detectors and compose the response
AnalyzeText(r) ==
    /\ loop = r
    /\ req[r].pc = "extracted"
    /\ LET norm == clean(req[r].text_raw)
           d == find_payment_days(norm)
           noa == find_noa(norm)
           ns == find_nonsolicit(norm)
           conv == find_conversions(norm)
           ind == find_indemnity(norm)
       IN  IF norm = <<>>
           THEN req' = [req EXCEPT ![r].pc = "done", ![r].status = 422]
           ELSE req' = [req EXCEPT ![r].pc = "done", ![r].text_norm = norm,
                           ![r].detected = TRUE, ![r].days = d, ![r].noa = noa,
                           ![r].ns = ns, ![r].conv = conv, ![r].indem = ind,
                           ![r].status = 200,
                           ![r].lights = Lights(d, noa, ns, conv, ind),
                           ![r].cards = Cards(d, noa, ns, conv, ind)]
    /\ loop' = 0
    /\ UNCHANGED <<text, called, relevant, picks, days, block, indem, OCR_OK>>

IdleFunctions == text = <<>> /\ called = FALSE /\ IdlePayment /\ IdleIndemnity

\* one request, any upload
Init ==
    /\ IdleFunctions
    /\ OCR_OK \in BOOLEAN
    /\ req \in [{1} -> {NewRequest(f) : f \in Uploads}]
    /\ loop = 0

\* several requests submitted together
InitLoop ==
    /\ IdleFunctions
    /\ OCR_OK \in BOOLEAN
    /\ req \in [1..MaxRequests -> {NewRequest(f) : f \in LoopUploads}]
    /\ loop = 0

Next ==
    \/ \E r \in DOMAIN req : Begin(r)
    \/ \E r \in DOMAIN req : ExtractText(r)
    \/ \E r \in DOMAIN req : AnalyzeText(r)

Spec == Init /\ [][Next]_vars

SpecLoop == InitLoop /\ [][Next]_vars

(***************************************************************************)
(* Claims about analyze (checked under Spec and SpecLoop)                  *)
(***************************************************************************)
Done(r) == req[r].pc = "done"
Succeeded(r) == Done(r) /\ req[r].status = 200

Statuses(ls) == [i \in 1..Len(ls) |-> ls[i].status]
Labels(ls) == [i \in 1..Len(ls) |-> ls[i].label]
Titles(cs) == [i \in 1..Len(cs) |-> cs[i].title]

\* C6: the Payment Terms light is a function of the resolved duration alone:
\* absent -> fail, at most 30 -> pass, 31..60 -> warn, more than 60 -> fail
\* (so 30 -> pass, 45 -> warn, 90 -> fail), whatever the other facts are.
C6_PaymentLightByDuration ==
    \A r \in DOMAIN req :
        Succeeded(r) =>
            LET d == req[r].days
                l == req[r].lights[1]
            IN  /\ d = find_payment_days(req[r].text_norm)
                /\ l.label = "Payment Terms"
                /\ d = None => l.status = "fail"
                /\ (d # None /\ d[1] <= 30) => l.status = "pass"
                /\ (d # None /\ 31 <= d[1] /\ d[1] <= 60) => l.status = "warn"
                /\ (d # None /\ d[1] > 60) => l.status = "fail"
                /\ d = Some(30) => l.status = "pass"
                /\ d = Some(45) => l.status = "warn"
                /\ d = Some(90) => l.status = "fail"
                /\ \A a, b, c \in BOOLEAN, i \in {"none", "mutual", "one-sided"} :
                      Lights(d, a, b, c, i)[1] = l

\* a document with net 45 and a one-sided indemnity: the light warns
C6_Witness ==
    \E r \in DOMAIN req :
        /\ Succeeded(r)
        /\ req[r].days = Some(45)
        /\ req[r].indem = "one-sided"
        /\ req[r].lights[1].status = "warn"

\* the text extraction obtains from the upload of request r; none when a
\* decoder fails
ObtainedText(r) ==
    IF extract_text(req[r].file, OCR_OK).raised THEN <<>>
    ELSE extract_text(req[r].file, OCR_OK).text

\* C7: analyze fails with HTTP 422 exactly when the extracted text is empty
\* after whitespace normalization (an empty or whitespace-only raw text,
\* every upstream extraction failure included); then no detector runs and
\* no lights or cards are produced; and for every non-empty normalized text
\* analyze runs all detectors and returns a result.
C7_UnreadableIs422 ==
    \A r \in DOMAIN req :
        Done(r) =>
            IF clean(ObtainedText(r)) = <<>>
            THEN /\ req[r].status = 422
                 /\ ~req[r].detected
                 /\ req[r].lights = <<>> /\ req[r].cards = <<>>
            ELSE /\ req[r].status = 200
                 /\ req[r].detected
                 /\ req[r].lights # <<>> /\ req[r].cards # <<>>

\* C8: text extraction of one request is isolated from the request-handling
\* thread: while the extraction of one document is still running, another
\* submitted analysis can make progress.
C8_ExtractionIsolated ==
    \A r, q \in DOMAIN req :
        (r # q /\ req[r].pc = "extracting" /\ req[q].pc = "ready") => ENABLED Begin(q)

\* C9: every successful response holds exactly six lights in the fixed order
\* Payment Terms, NOA, Non-Solicit, Conversions, Indemnity, Insurance, each
\* with a status among pass, warn, fail and Insurance always warn, and
\* exactly five cards in the order Payment Terms, Notice of Assignment,
\* Non-Solicit, Conversions, Indemnity, whatever the detected facts are.
C9_SixLightsFiveCards ==
    \A r \in DOMAIN req :
        Succeeded(r) =>
            /\ Labels(req[r].lights) =
                  <<"Payment Terms", "NOA to Rev Capital", "Client Hire / Non-Solicit",
                    "Conversions", "Indemnity", "Insurance">>
            /\ \A i \in 1..Len(req[r].lights) :
                  req[r].lights[i].status \in {"pass", "warn", "fail"}
            /\ req[r].lights[6].status = "warn"
            /\ Titles(req[r].cards) =
                  <<"Payment Terms", "Notice of Assignment", "Client Hire / Non-Solicit",
                    "Conversions (Temp-to-Perm)", "Indemnity">>

\* a response whose facts are all unfavourable
C9_Witness ==
    \E r \in DOMAIN req :
        /\ Succeeded(r)
        /\ req[r].days = None /\ ~req[r].noa /\ ~req[r].ns /\ ~req[r].conv
        /\ req[r].indem = "one-sided"
        /\ Statuses(req[r].lights) = <<"fail", "fail", "warn", "warn", "fail", "warn">>

=============================================================================
